---- MODULE Spec2Model ----
(***************************************************************************)
(* Model of the animal-share backend: the relational tables of schema.ts,  *)
(* the data-access layer DatabaseStorage (storage.ts) and the request      *)
(* handlers of routes.ts.                                                   *)
(*                                                                         *)
(* Tables are sequences of rows in insertion order.  schema.ts declares    *)
(* the (name, category), (postId, tagId), (userId, postId) and             *)
(* (userId, tagId) indexes with index(...), not uniqueIndex(...), and no   *)
(* composite primary key, so none of the four tables rejects a repeated    *)
(* row: a table is a sequence that may hold the same pair twice.           *)
(*                                                                         *)
(* Category strings are transliterated: "bunrui" is the classification     *)
(* category, "kakudo" the angle category, "parts" and "jiyu" the others.   *)
(***************************************************************************)
EXTENDS Integers, Sequences, FiniteSets, TLC

\* ------------------------------------------------------------------ bounds
MaxPosts == 2
MaxTagIds == 2
MaxExcludes == 1
MaxLimit == 2
MaxOffset == 1
NumCallers == 2
MaxNewTags == 2
MaxHttpWrites == 2
MaxPostsWrites == 4
MaxExcludeRows == 3
MaxHttpTagIds == 2

\* --------------------------------------------------------------- constants
Users == {"u1", "u2"}
NoUser == "none"
TagCategory == {"bunrui", "kakudo", "parts", "jiyu"}
NoTag == [id |-> 0, name |-> "", category |-> ""]
NoPost == [id |-> 0, userId |-> NoUser, createdAt |-> 0]
NoFavorite == [userId |-> NoUser, postId |-> 0]

VARIABLES
  tags,             \* table tags: rows [id, name, category]
  posts,            \* table posts: set of rows [id, userId, createdAt] (id is the primary key)
  postTags,         \* table post_tags: rows [postId, tagId]
  favorites,        \* table favorites: rows [userId, postId]
  userExcludeTags,  \* table user_exclude_tags: rows [userId, tagId]
  nextPostId,       \* the next fresh post id, also the clock behind created_at
  tx,               \* the open transaction (createPost, setUserExcludeTags): its uncommitted rows
  requested,        \* per stored post, the tagIds createPost was called with
  ret,              \* the last completed storage call: its arguments and its result
  callers,          \* per concurrent getOrCreateTag caller: where it is and what it holds
  seed,             \* initializeDefaultTags: index of the next default tag to seed
  req,              \* the POST /api/posts request between its two storage calls
  res               \* the HTTP response of the last request handled

vars == <<tags, posts, postTags, favorites, userExcludeTags, nextPostId, tx, requested, ret,
          callers, seed, req, res>>

\* What the storage layer does not touch: the callers' and the handlers' own state.
outside == <<callers, seed, req, res>>

\* ----------------------------------------------------------------- helpers
Range(s) == {s[i] : i \in 1..Len(s)}

Min(a, b) == IF a < b THEN a ELSE b

Count(s, Test(_)) == Cardinality({i \in 1..Len(s) : Test(s[i])})

RECURSIVE SeqsUpTo(_, _)
SeqsUpTo(S, n) ==
  IF n = 0 THEN {<<>>}
  ELSE LET shorter == SeqsUpTo(S, n - 1)
       IN shorter \cup {Append(s, x) : s \in {t \in shorter : Len(t) = n - 1}, x \in S}

Perms(n) == {f \in [1..n -> 1..n] : \A i, j \in 1..n : f[i] = f[j] => i = j}

NoTx == [open |-> FALSE, stage |-> "none", post |-> NoPost, tagIds |-> <<>>, rows |-> <<>>]

NoRet ==
  [op |-> "none", userId |-> NoUser, postId |-> 0, tagIds |-> <<>>, excludeTagIds |-> <<>>,
   limit |-> 0, offset |-> 0, ok |-> FALSE, page |-> <<>>]

NoCall == [pc |-> "idle", name |-> "", category |-> "", existingTag |-> NoTag, result |-> NoTag]

NoReq == [pc |-> "idle", userId |-> NoUser, tagIds |-> <<>>]

NoRes == [status |-> 0]

Callers == 1..NumCallers

TagIdsOf(t) == {t[i].id : i \in 1..Len(t)}

PostIdsOf(P) == {p.id : p \in P}

\* initializeDefaultTags: the fixed taxonomy seeded at start (9 classification,
\* 6 angle and 7 part tags), names transliterated.
defaultTags ==
  << [name |-> "inu", category |-> "bunrui"],
     [name |-> "neko", category |-> "bunrui"],
     [name |-> "chorui", category |-> "bunrui"],
     [name |-> "hachurui", category |-> "bunrui"],
     [name |-> "ryoseirui", category |-> "bunrui"],
     [name |-> "gyorui", category |-> "bunrui"],
     [name |-> "shodobutsu", category |-> "bunrui"],
     [name |-> "konchu", category |-> "bunrui"],
     [name |-> "sonota", category |-> "bunrui"],
     [name |-> "shomen", category |-> "kakudo"],
     [name |-> "yoko", category |-> "kakudo"],
     [name |-> "naname", category |-> "kakudo"],
     [name |-> "ue", category |-> "kakudo"],
     [name |-> "shita", category |-> "kakudo"],
     [name |-> "ushiro", category |-> "kakudo"],
     [name |-> "mimi", category |-> "parts"],
     [name |-> "hige", category |-> "parts"],
     [name |-> "tsuno", category |-> "parts"],
     [name |-> "kiba", category |-> "parts"],
     [name |-> "me", category |-> "parts"],
     [name |-> "hana", category |-> "parts"],
     [name |-> "shippo", category |-> "parts"] >>

\* The tags table once initializeDefaultTags has run against an empty table.
SeededTags ==
  [i \in 1..Len(defaultTags) |->
     [id |-> i, name |-> defaultTags[i].name, category |-> defaultTags[i].category]]

\* -------------------------------------------------------------------- Init
\* The server after registerRoutes: the taxonomy is seeded, nothing is posted.
Init ==
  /\ tags = SeededTags
  /\ posts = {}
  /\ postTags = <<>>
  /\ favorites = <<>>
  /\ userExcludeTags = <<>>
  /\ nextPostId = 1
  /\ tx = NoTx
  /\ requested = <<>>
  /\ ret = NoRet
  /\ callers = [c \in Callers |-> NoCall]
  /\ seed = Len(defaultTags) + 1
  /\ req = NoReq
  /\ res = NoRes

\* ------------------------------------------------------------ tag storage
\* createTag: a plain insert; the table has no unique constraint to violate.
insertTag(name, category) ==
  Append(tags, [id |-> Len(tags) + 1, name |-> name, category |-> category])

createTag(name, category) ==
  /\ tags' = insertTag(name, category)
  /\ ret' = [NoRet EXCEPT !.op = "createTag", !.ok = TRUE]
  /\ UNCHANGED <<posts, postTags, favorites, userExcludeTags, nextPostId, tx, requested>>

\* getOrCreateTag, first await: select the rows with this name and category
\* and keep the first (any of them, the select has no order).
getOrCreateTagSelect(c, name, category) ==
  /\ callers[c].pc = "idle"
  /\ LET matching == {t \in Range(tags) : t.name = name /\ t.category = category}
     IN \E existingTag \in (IF matching = {} THEN {NoTag} ELSE matching) :
          callers' = [callers EXCEPT ![c] =
                        [pc |-> "selected", name |-> name, category |-> category,
                         existingTag |-> existingTag, result |-> NoTag]]
  /\ UNCHANGED <<tags, posts, postTags, favorites, userExcludeTags, nextPostId, tx,
                 requested, ret>>

\* getOrCreateTag, the rest: return the row found, else this.createTag.
getOrCreateTagReturn(c) ==
  /\ callers[c].pc = "selected"
  /\ IF callers[c].existingTag.id # 0
     THEN /\ callers' = [callers EXCEPT ![c].pc = "done", ![c].result = callers[c].existingTag]
          /\ UNCHANGED tags
     ELSE /\ tags' = insertTag(callers[c].name, callers[c].category)
          /\ callers' = [callers EXCEPT ![c].pc = "done",
                                        ![c].result = tags'[Len(tags')]]
  /\ UNCHANGED <<posts, postTags, favorites, userExcludeTags, nextPostId, tx, requested, ret>>

\* The caller takes the tag it was handed and may call again.
getOrCreateTagTaken(c) ==
  /\ callers[c].pc = "done"
  /\ callers' = [callers EXCEPT ![c] = NoCall]
  /\ UNCHANGED <<tags, posts, postTags, favorites, userExcludeTags, nextPostId, tx,
                 requested, ret>>

\* ----------------------------------------------------------- post storage
\* createPost runs inside db.transaction: its inserts stay in tx until the
\* commit, and a reader of posts/postTags (read committed) never sees them.
\* First statement: tx.insert(posts).values(post).returning().
createPostInsertPost_autocommit(userId, tagIds) ==
  /\ ~tx.open
  /\ LET newPost == [id |-> nextPostId, userId |-> userId, createdAt |-> nextPostId]
     IN /\ tx' = [open |-> TRUE, stage |-> "post", post |-> newPost, tagIds |-> tagIds,
                  rows |-> <<>>]
        /\ posts' = posts \cup {newPost}
  /\ nextPostId' = nextPostId + 1
  /\ UNCHANGED <<tags, postTags, favorites, userExcludeTags, requested, ret>>

createPostInsertPost(userId, tagIds) ==
  /\ ~tx.open
  /\ tx' = [open |-> TRUE, stage |-> "post",
            post |-> [id |-> nextPostId, userId |-> userId, createdAt |-> nextPostId],
            tagIds |-> tagIds, rows |-> <<>>]
  /\ nextPostId' = nextPostId + 1
  /\ UNCHANGED <<tags, posts, postTags, favorites, userExcludeTags, requested, ret>>

\* Second statement, skipped for an empty tagIds: one multi-row insert into
\* post_tags.  tag_id references tags.id, so the statement fails as a whole
\* when some id is no tag; the callback then throws and the transaction is
\* rolled back, discarding the post row with it.
createPostInsertTags ==
  /\ tx.open
  /\ tx.stage = "post"
  /\ IF Range(tx.tagIds) \subseteq TagIdsOf(tags)
     THEN /\ tx' = [tx EXCEPT !.stage = "tags",
                      !.rows = [i \in 1..Len(tx.tagIds) |->
                                  [postId |-> tx.post.id, tagId |-> tx.tagIds[i]]]]
          /\ UNCHANGED ret
     ELSE /\ tx' = NoTx
          /\ ret' = [NoRet EXCEPT !.op = "createPost", !.userId = tx.post.userId,
                       !.postId = tx.post.id, !.tagIds = tx.tagIds, !.ok = FALSE]
  /\ UNCHANGED <<tags, posts, postTags, favorites, userExcludeTags, nextPostId, requested>>

\* The callback returns newPost and the transaction commits: the post row
\* and its association rows become visible together.
createPostCommit ==
  /\ tx.open
  /\ tx.stage = "tags"
  /\ posts' = posts \cup {tx.post}
  /\ postTags' = postTags \o tx.rows
  /\ requested' = Append(requested, [postId |-> tx.post.id, tagIds |-> tx.tagIds])
  /\ ret' = [NoRet EXCEPT !.op = "createPost", !.userId = tx.post.userId,
               !.postId = tx.post.id, !.tagIds = tx.tagIds, !.ok = TRUE]
  /\ tx' = NoTx
  /\ UNCHANGED <<tags, favorites, userExcludeTags, nextPostId>>

\* createPost as one step: the transaction above run from begin to commit (or
\* to its rollback) with nothing interleaved.
createPost(userId, tagIds) ==
  /\ ~tx.open
  /\ nextPostId' = nextPostId + 1
  /\ LET newPost == [id |-> nextPostId, userId |-> userId, createdAt |-> nextPostId]
     IN IF Range(tagIds) \subseteq TagIdsOf(tags)
        THEN /\ posts' = posts \cup {newPost}
             /\ postTags' = postTags \o [i \in 1..Len(tagIds) |->
                                          [postId |-> newPost.id, tagId |-> tagIds[i]]]
             /\ requested' = Append(requested, [postId |-> newPost.id, tagIds |-> tagIds])
             /\ ret' = [NoRet EXCEPT !.op = "createPost", !.userId = userId,
                          !.postId = newPost.id, !.tagIds = tagIds, !.ok = TRUE]
        ELSE /\ UNCHANGED <<posts, postTags, requested>>
             /\ ret' = [NoRet EXCEPT !.op = "createPost", !.userId = userId,
                          !.postId = newPost.id, !.tagIds = tagIds, !.ok = FALSE]
  /\ UNCHANGED <<tags, favorites, userExcludeTags, tx>>

\* deletePost: DELETE ... WHERE id = :id AND user_id = :userId RETURNING *.
\* post_tags.post_id and favorites.post_id cascade on the post's deletion.
deletePost_anyOwner(id, userId) ==
  LET deleted == {p \in posts : p.id = id}
  IN /\ posts' = posts \ deleted
     /\ postTags' = SelectSeq(postTags, LAMBDA r : r.postId \notin PostIdsOf(deleted))
     /\ favorites' = SelectSeq(favorites, LAMBDA r : r.postId \notin PostIdsOf(deleted))
     /\ ret' = [NoRet EXCEPT !.op = "deletePost", !.userId = userId, !.postId = id,
                  !.ok = (Cardinality(deleted) > 0)]
     /\ requested' = SelectSeq(requested, LAMBDA r : r.postId \notin PostIdsOf(deleted))
     /\ UNCHANGED <<tags, userExcludeTags, nextPostId, tx>>

deletePost(id, userId) ==
  LET deleted == {p \in posts : p.id = id /\ p.userId = userId}
  IN /\ posts' = posts \ deleted
     /\ postTags' = SelectSeq(postTags, LAMBDA r : r.postId \notin PostIdsOf(deleted))
     /\ favorites' = SelectSeq(favorites, LAMBDA r : r.postId \notin PostIdsOf(deleted))
     /\ ret' = [NoRet EXCEPT !.op = "deletePost", !.userId = userId, !.postId = id,
                  !.ok = (Cardinality(deleted) > 0)]
     /\ requested' = SelectSeq(requested, LAMBDA r : r.postId \notin PostIdsOf(deleted))
     /\ UNCHANGED <<tags, userExcludeTags, nextPostId, tx>>

\* ------------------------------------------------------- favorite storage
\* addFavorite: INSERT ... ON CONFLICT DO NOTHING.  A conflict needs a unique
\* index or constraint on the table; favorites has none (favorites_pk is a
\* plain index), so the row is always inserted.  post_id references
\* posts.id: a favorite of a post that does not exist is a foreign-key error.
addFavorite(userId, postId) ==
  /\ IF postId \in PostIdsOf(posts)
     THEN /\ favorites' = Append(favorites, [userId |-> userId, postId |-> postId])
          /\ ret' = [NoRet EXCEPT !.op = "addFavorite", !.userId = userId,
                       !.postId = postId, !.ok = TRUE]
     ELSE /\ UNCHANGED favorites
          /\ ret' = [NoRet EXCEPT !.op = "addFavorite", !.userId = userId,
                       !.postId = postId, !.ok = FALSE]
  /\ UNCHANGED <<tags, posts, postTags, userExcludeTags, nextPostId, tx, requested>>

removeFavorite(userId, postId) ==
  /\ favorites' = SelectSeq(favorites, LAMBDA r : ~(r.userId = userId /\ r.postId = postId))
  /\ ret' = [NoRet EXCEPT !.op = "removeFavorite", !.userId = userId, !.postId = postId,
               !.ok = TRUE]
  /\ UNCHANGED <<tags, posts, postTags, userExcludeTags, nextPostId, tx, requested>>

\* ---------------------------------------------------- exclude-tag storage
\* addExcludeTag: as addFavorite, ON CONFLICT DO NOTHING with no unique index.
\* tag_id references tags.id: excluding an id that is no tag is a foreign-key error.
insertExcludeTag(rows, userId, tagId) ==
  IF tagId \in TagIdsOf(tags)
  THEN [rows |-> Append(rows, [userId |-> userId, tagId |-> tagId]), ok |-> TRUE]
  ELSE [rows |-> rows, ok |-> FALSE]

addExcludeTag(userId, tagId) ==
  /\ userExcludeTags' = insertExcludeTag(userExcludeTags, userId, tagId).rows
  /\ ret' = [NoRet EXCEPT !.op = "addExcludeTag", !.userId = userId, !.tagIds = <<tagId>>,
               !.ok = insertExcludeTag(userExcludeTags, userId, tagId).ok]
  /\ UNCHANGED <<tags, posts, postTags, favorites, nextPostId, tx, requested>>

removeExcludeTag(userId, tagId) ==
  /\ userExcludeTags' =
       SelectSeq(userExcludeTags, LAMBDA r : ~(r.userId = userId /\ r.tagId = tagId))
  /\ ret' = [NoRet EXCEPT !.op = "removeExcludeTag", !.userId = userId,
               !.tagIds = <<tagId>>, !.ok = TRUE]
  /\ UNCHANGED <<tags, posts, postTags, favorites, nextPostId, tx, requested>>

\* ------------------------------------------------------------- feed query
\* The select builder keeps one where clause: .where(c) assigns the query's
\* config.where, so a later call replaces the condition of an earlier one
\* (the calls in getPosts carry @ts-ignore because the builder's type no
\* longer offers where once it was called).  A condition is modelled by the
\* set of post ids that satisfy it.
where(config, condition) == condition

isFavoritedExpr(userId, favorite) ==
  IF userId # NoUser THEN favorite.userId # NoUser ELSE FALSE

\* leftJoin(tags, eq(postTags.tagId, tags.id))
TagOf(tagId) ==
  IF tagId \in TagIdsOf(tags) THEN CHOOSE t \in Range(tags) : t.id = tagId ELSE NoTag

\* joinRows with the favorites joined on the post alone.
joinRows_anyViewer(p, userId) ==
  LET pt == SelectSeq(postTags, LAMBDA r : r.postId = p.id)
      tagCol == IF Len(pt) = 0 THEN <<NoTag>> ELSE [i \in 1..Len(pt) |-> TagOf(pt[i].tagId)]
      fv == SelectSeq(favorites, LAMBDA r : r.postId = p.id)
      favCol == IF userId = NoUser \/ Len(fv) = 0 THEN <<NoFavorite>> ELSE fv
      m == Len(favCol)
  IN [k \in 1..(Len(tagCol) * m) |->
        [post |-> p, tag |-> tagCol[((k - 1) \div m) + 1],
         isFavorited |-> isFavoritedExpr(userId, favCol[((k - 1) % m) + 1])]]

\* The rows the joins produce for one post: one per post_tags row (a single
\* row with a null tag when it has none), times one per favorites row of
\* (userId, post) when userId is given (a single row with a null favorite
\* when there is none).
joinRows(p, userId) ==
  LET pt == SelectSeq(postTags, LAMBDA r : r.postId = p.id)
      tagCol == IF Len(pt) = 0 THEN <<NoTag>> ELSE [i \in 1..Len(pt) |-> TagOf(pt[i].tagId)]
      fv == SelectSeq(favorites, LAMBDA r : r.postId = p.id /\ r.userId = userId)
      favCol == IF userId = NoUser \/ Len(fv) = 0 THEN <<NoFavorite>> ELSE fv
      m == Len(favCol)
  IN [k \in 1..(Len(tagCol) * m) |->
        [post |-> p, tag |-> tagCol[((k - 1) \div m) + 1],
         isFavorited |-> isFavoritedExpr(userId, favCol[((k - 1) % m) + 1])]]

\* Subquery of the include filter: post ids grouped over the post_tags rows
\* whose tag is in tagIds, having count() = tagIds.length.
postsWithAllTags(tagIds) ==
  {pid \in {r.postId : r \in Range(postTags)} :
     Count(postTags, LAMBDA r : r.postId = pid /\ r.tagId \in Range(tagIds)) = Len(tagIds)}

postsWithExcludedTags(excludeTagIds) ==
  {r.postId : r \in {x \in Range(postTags) : x.tagId \in Range(excludeTagIds)}}

excludedTagIds(userId) ==
  {r.tagId : r \in {x \in Range(userExcludeTags) : x.userId = userId}}

postsWithUserExcludedTags(userId) ==
  {r.postId : r \in {x \in Range(postTags) : x.tagId \in excludedTagIds(userId)}}

\* The where clause getPosts ends with, as the set of post ids it admits.
getPostsWhere(tagIds, userId, excludeTagIds) ==
  LET all == PostIdsOf(posts)
      q1 == IF Len(tagIds) > 0
            THEN where(all, all \cap postsWithAllTags(tagIds)) ELSE all
      q2 == IF Len(excludeTagIds) > 0
            THEN where(q1, all \ postsWithExcludedTags(excludeTagIds)) ELSE q1
      q3 == IF userId # NoUser
            THEN where(q2, all \ postsWithUserExcludedTags(userId)) ELSE q2
  IN q3

\* orderBy(desc(posts.createdAt)) on the posts themselves.
RECURSIVE orderByCreatedAtDesc(_)
orderByCreatedAtDesc(P) ==
  IF P = {} THEN <<>>
  ELSE LET newest == CHOOSE p \in P : \A q \in P : q.createdAt <= p.createdAt
       IN <<newest>> \o orderByCreatedAtDesc(P \ {newest})

\* The ORDER BY names posts.createdAt only: the rows of one post tie, and the
\* database may return them in any order.
RowOrders(rows) == {[i \in 1..Len(rows) |-> rows[f[i]]] : f \in Perms(Len(rows))}

RECURSIVE queryResults(_, _)
queryResults(ps, userId) ==
  IF ps = <<>> THEN {<<>>}
  ELSE {a \o b : a \in RowOrders(joinRows(Head(ps), userId)),
                 b \in queryResults(Tail(ps), userId)}

\* .limit(limit).offset(offset) on the joined rows.
limitOffset(rows, limit, offset) == SubSeq(rows, offset + 1, Min(Len(rows), offset + limit))

IndexOfPost(acc, id) ==
  IF \E k \in 1..Len(acc) : acc[k].id = id
  THEN CHOOSE k \in 1..Len(acc) : acc[k].id = id ELSE 0

\* The grouping loop over the result rows: postsMap keeps insertion order.
RECURSIVE collectTags(_, _)
collectTags(rows, postsMap) ==
  IF rows = <<>> THEN postsMap
  ELSE LET result == Head(rows)
           m1 == IF IndexOfPost(postsMap, result.post.id) = 0
                 THEN Append(postsMap,
                        [id |-> result.post.id, userId |-> result.post.userId,
                         createdAt |-> result.post.createdAt, tags |-> <<>>,
                         isFavorited |-> result.isFavorited])
                 ELSE postsMap
           k == IndexOfPost(m1, result.post.id)
           m2 == IF result.tag.id # 0 /\ result.tag.id \notin TagIdsOf(m1[k].tags)
                 THEN [m1 EXCEPT ![k].tags = Append(@, result.tag)]
                 ELSE m1
       IN collectTags(Tail(rows), m2)

\* Every page getPosts may return in the current state of the tables.
getPostsResults(limit, offset, tagIds, userId, excludeTagIds) ==
  LET admitted == {p \in posts : p.id \in getPostsWhere(tagIds, userId, excludeTagIds)}
  IN {collectTags(limitOffset(rows, limit, offset), <<>>) :
        rows \in queryResults(orderByCreatedAtDesc(admitted), userId)}

getPosts(limit, offset, tagIds, userId, excludeTagIds) ==
  /\ \E page \in getPostsResults(limit, offset, tagIds, userId, excludeTagIds) :
       ret' = [op |-> "getPosts", userId |-> userId, postId |-> 0, tagIds |-> tagIds,
               excludeTagIds |-> excludeTagIds, limit |-> limit, offset |-> offset,
               ok |-> TRUE, page |-> page]
  /\ UNCHANGED <<tags, posts, postTags, favorites, userExcludeTags, nextPostId, tx, requested>>

\* getPost: the same joins restricted to one id, no order, no limit.
getPost(id, userId) ==
  /\ \E results \in queryResults(orderByCreatedAtDesc({p \in posts : p.id = id}), userId) :
       ret' = [NoRet EXCEPT !.op = "getPost", !.userId = userId, !.postId = id,
                 !.ok = (Len(results) # 0), !.page = collectTags(results, <<>>)]
  /\ UNCHANGED <<tags, posts, postTags, favorites, userExcludeTags, nextPostId, tx, requested>>

\* ------------------------------------------------------------------ inputs
\* Tag ids the requests draw from: inu (bunrui) and shomen (kakudo).
TagIdInputs == {1, 10}
PostIdInputs == 1..MaxPosts
TagIdLists == SeqsUpTo(TagIdInputs, MaxTagIds)
ExcludeLists == SeqsUpTo(TagIdInputs, MaxExcludes)

\* Name and category pairs the tag requests draw from: a seeded pair and two
\* new ones that share a name.
TagInputs ==
  {[name |-> "inu", category |-> "bunrui"], [name |-> "pochi", category |-> "jiyu"],
   [name |-> "pochi", category |-> "bunrui"]}

\* ret and res hold the result of the last call until its caller has taken it;
\* a caller issues its next call after that.
Idle == ret.op = "none" /\ res.status = 0

return ==
  /\ ~Idle
  /\ ret' = NoRet
  /\ res' = NoRes
  /\ UNCHANGED <<tags, posts, postTags, favorites, userExcludeTags, nextPostId, tx, requested,
                 callers, seed, req>>

\* ------------------------------------------ the storage layer: feed reads
Next ==
  \/ Idle /\ nextPostId <= MaxPosts
          /\ \E u \in Users, tagIds \in TagIdLists : createPost(u, tagIds)
          /\ UNCHANGED outside
  \/ Idle /\ Len(userExcludeTags) < MaxExcludes
          /\ \E u \in Users, t \in TagIdInputs : addExcludeTag(u, t)
          /\ UNCHANGED outside
  \/ Idle /\ \E limit \in 1..MaxLimit, offset \in 0..MaxOffset, tagIds \in TagIdLists,
                u \in Users \cup {NoUser}, excludeTagIds \in ExcludeLists :
               getPosts(limit, offset, tagIds, u, excludeTagIds)
          /\ UNCHANGED outside
  \/ return

Spec == Init /\ [][Next]_vars

\* ------------------------------- the storage layer: concurrent getOrCreateTag
NextTags ==
  \/ Len(tags) + Cardinality({c \in Callers : callers[c].pc = "selected"})
         < Len(defaultTags) + MaxNewTags
       /\ \E c \in Callers, t \in TagInputs : getOrCreateTagSelect(c, t.name, t.category)
       /\ UNCHANGED <<seed, req, res>>
  \/ \E c \in Callers : getOrCreateTagReturn(c) /\ UNCHANGED <<seed, req, res>>
  \/ \E c \in Callers : getOrCreateTagTaken(c) /\ UNCHANGED <<seed, req, res>>

SpecTags == Init /\ [][NextTags]_vars

\* ------------------------------------------------------------ validation
validatePostTags_anyCategory(tagIds) ==
  IF Len(tagIds) = 0 THEN FALSE
  ELSE Len(SelectSeq(tags, LAMBDA t : t.id \in Range(tagIds))) = Len(tagIds)

validatePostTags(tagIds) ==
  IF Len(tagIds) = 0 THEN FALSE
  ELSE LET tagResults == SelectSeq(tags, LAMBDA t : t.id \in Range(tagIds))
       IN IF Len(tagResults) # Len(tagIds) THEN FALSE
          ELSE \E i \in 1..Len(tagResults) : tagResults[i].category = "bunrui"

\* ---------------------------------------------------------- the HTTP surface
storage == <<tags, posts, postTags, favorites, userExcludeTags, nextPostId, tx, requested>>

\* The process starts against an empty database; registerRoutes seeds the
\* taxonomy before it registers any route.
InitHttp ==
  /\ tags = <<>>
  /\ posts = {}
  /\ postTags = <<>>
  /\ favorites = <<>>
  /\ userExcludeTags = <<>>
  /\ nextPostId = 1
  /\ tx = NoTx
  /\ requested = <<>>
  /\ ret = NoRet
  /\ callers = [c \in Callers |-> NoCall]
  /\ seed = 1
  /\ req = NoReq
  /\ res = NoRes

\* One iteration of the seeding loop: await storage.getOrCreateTag(name,
\* category), with no route registered yet and so nothing running beside it.
initializeDefaultTags ==
  /\ seed <= Len(defaultTags)
  /\ LET tag == defaultTags[seed]
         matching == {t \in Range(tags) : t.name = tag.name /\ t.category = tag.category}
     IN tags' = IF matching # {} THEN tags ELSE insertTag(tag.name, tag.category)
  /\ seed' = seed + 1
  /\ UNCHANGED <<posts, postTags, favorites, userExcludeTags, nextPostId, tx, requested, ret,
                 callers, req, res>>

\* The routes are registered once the seeding loop is over.
Serving == seed > Len(defaultTags)

\* isAuthenticated: a request without a session user is answered 401 and the
\* handler is not run.
\* isAuthenticated letting every request through.
isAuthenticated_noCheck(session) == TRUE

isAuthenticated(session) == session # NoUser

Unauthorized ==
  /\ res' = [status |-> 401]
  /\ UNCHANGED <<storage, ret>>

\* POST /api/tags: insertTagSchema.parse(req.body), then storage.createTag.
postApiTags(session, name, category) ==
  /\ IF ~isAuthenticated(session) THEN Unauthorized
     ELSE IF category \notin TagCategory
          THEN res' = [status |-> 400] /\ UNCHANGED <<storage, ret>>
          ELSE createTag(name, category) /\ res' = [status |-> 200]
  /\ UNCHANGED <<callers, seed, req>>

\* POST /api/posts up to its first await: the body is parsed (tagIds needs
\* one element at least) and storage.validatePostTags decides.
postApiPostsValidate(session, tagIds) ==
  /\ req.pc = "idle"
  /\ IF ~isAuthenticated(session) THEN Unauthorized /\ UNCHANGED req
     ELSE IF Len(tagIds) < 1 \/ ~validatePostTags(tagIds)
          THEN res' = [status |-> 400] /\ UNCHANGED <<storage, ret, req>>
          ELSE /\ req' = [pc |-> "validated", userId |-> session, tagIds |-> tagIds]
               /\ UNCHANGED <<storage, ret, res>>
  /\ UNCHANGED <<callers, seed>>

\* POST /api/posts after the validation: storage.createPost, 500 when it throws.
postApiPostsCreate ==
  /\ req.pc = "validated"
  /\ createPost(req.userId, req.tagIds)
  /\ res' = [status |-> IF ret'.ok THEN 200 ELSE 500]
  /\ req' = NoReq
  /\ UNCHANGED <<callers, seed>>

\* DELETE /api/posts/:id
deleteApiPostsId(session, id) ==
  /\ IF ~isAuthenticated(session) THEN Unauthorized
     ELSE deletePost(id, session) /\ res' = [status |-> IF ret'.ok THEN 200 ELSE 404]
  /\ UNCHANGED <<callers, seed, req>>

\* POST /api/favorites; postId 0 stands for a body without postId.
postApiFavorites(session, postId) ==
  /\ IF ~isAuthenticated(session) THEN Unauthorized
     ELSE IF postId = 0
          THEN res' = [status |-> 400] /\ UNCHANGED <<storage, ret>>
          ELSE addFavorite(session, postId) /\ res' = [status |-> IF ret'.ok THEN 200 ELSE 500]
  /\ UNCHANGED <<callers, seed, req>>

\* DELETE /api/favorites/:postId
deleteApiFavoritesPostId(session, postId) ==
  /\ IF ~isAuthenticated(session) THEN Unauthorized
     ELSE removeFavorite(session, postId) /\ res' = [status |-> 200]
  /\ UNCHANGED <<callers, seed, req>>

\* The loop of POST /api/exclude-tags: one addExcludeTag per id, in order; the
\* first one that throws ends the loop and keeps what was added before it.
RECURSIVE addExcludeTagsLoop(_, _, _)
addExcludeTagsLoop(rows, userId, tagIds) ==
  IF tagIds = <<>> THEN [rows |-> rows, ok |-> TRUE]
  ELSE LET added == insertExcludeTag(rows, userId, Head(tagIds))
       IN IF added.ok THEN addExcludeTagsLoop(added.rows, userId, Tail(tagIds)) ELSE added

\* POST /api/exclude-tags
postApiExcludeTags(session, tagIds) ==
  /\ IF ~isAuthenticated(session) THEN Unauthorized
     ELSE IF Len(tagIds) = 0
          THEN res' = [status |-> 400] /\ UNCHANGED <<storage, ret>>
          ELSE LET done == addExcludeTagsLoop(userExcludeTags, session, tagIds)
               IN /\ userExcludeTags' = done.rows
                  /\ ret' = [NoRet EXCEPT !.op = "addExcludeTag", !.userId = session,
                               !.tagIds = tagIds, !.ok = done.ok]
                  /\ res' = [status |-> IF done.ok THEN 200 ELSE 500]
                  /\ UNCHANGED <<tags, posts, postTags, favorites, nextPostId, tx, requested>>
  /\ UNCHANGED <<callers, seed, req>>

\* DELETE /api/exclude-tags/:tagId
deleteApiExcludeTagsTagId(session, tagId) ==
  /\ IF ~isAuthenticated(session) THEN Unauthorized
     ELSE removeExcludeTag(session, tagId) /\ res' = [status |-> 200]
  /\ UNCHANGED <<callers, seed, req>>

Sessions == Users \cup {NoUser}
HttpTagIdInputs == TagIdInputs \cup {Len(defaultTags) + 1}
HttpTagIdLists == SeqsUpTo(HttpTagIdInputs, MaxHttpTagIds)
HttpPostIdInputs == 1..MaxHttpWrites

\* The rows the requests have created so far (a validated POST /api/posts
\* counts for the post it is about to create).
HttpWrites ==
  (Len(tags) - Len(defaultTags)) + (nextPostId - 1) + Len(favorites) + Len(userExcludeTags)
    + (IF req.pc = "validated" THEN 1 ELSE 0)

NextHttp ==
  \/ initializeDefaultTags
  \/ Serving /\ Idle /\ HttpWrites < MaxHttpWrites
       /\ \E session \in Sessions, t \in TagInputs \cup {[name |-> "pochi", category |-> "bad"]} :
            postApiTags(session, t.name, t.category)
  \/ Serving /\ Idle /\ HttpWrites < MaxHttpWrites
       /\ \E session \in Sessions, tagIds \in HttpTagIdLists : postApiPostsValidate(session, tagIds)
  \/ Serving /\ Idle /\ postApiPostsCreate
  \/ Serving /\ Idle /\ \E session \in Sessions, id \in HttpPostIdInputs : deleteApiPostsId(session, id)
  \/ Serving /\ Idle /\ HttpWrites < MaxHttpWrites
       /\ \E session \in Sessions, postId \in {0} \cup HttpPostIdInputs :
            postApiFavorites(session, postId)
  \/ Serving /\ Idle
       /\ \E session \in Sessions, postId \in HttpPostIdInputs :
            deleteApiFavoritesPostId(session, postId)
  \/ Serving /\ Idle
       /\ \E session \in Sessions, tagIds \in HttpTagIdLists :
            HttpWrites + Len(tagIds) <= MaxHttpWrites /\ postApiExcludeTags(session, tagIds)
  \/ Serving /\ Idle
       /\ \E session \in Sessions, tagId \in HttpTagIdInputs :
            deleteApiExcludeTagsTagId(session, tagId)
  \/ return

SpecHttp == InitHttp /\ [][NextHttp]_vars

\* ------------------- the storage layer: posts, their deletion and favorites
PostsWrites == (nextPostId - 1) + Len(favorites)

\* deletePost and the favorites do not look at which tags a post carries.
PostsTagIdLists == {<<t>> : t \in TagIdInputs}

NextPosts ==
  \/ Idle /\ PostsWrites < MaxPostsWrites
          /\ \E u \in Users, tagIds \in PostsTagIdLists : createPost(u, tagIds)
          /\ UNCHANGED outside
  \/ Idle /\ \E id \in 1..MaxPostsWrites, u \in Users : deletePost(id, u)
          /\ UNCHANGED outside
  \/ Idle /\ PostsWrites < MaxPostsWrites
          /\ \E u \in Users, postId \in 1..MaxPostsWrites : addFavorite(u, postId)
          /\ UNCHANGED outside
  \/ Idle /\ \E u \in Users, postId \in 1..MaxPostsWrites : removeFavorite(u, postId)
          /\ UNCHANGED outside
  \/ return

SpecPosts == Init /\ [][NextPosts]_vars

\* ------------- the storage layer: createPost's transaction and its readers
TxTagIdLists == SeqsUpTo(HttpTagIdInputs, MaxTagIds)

NextTx ==
  \/ Idle /\ nextPostId <= MaxPosts
          /\ \E u \in Users, tagIds \in TxTagIdLists : createPostInsertPost(u, tagIds)
          /\ UNCHANGED outside
  \/ Idle /\ createPostInsertTags /\ UNCHANGED outside
  \/ Idle /\ createPostCommit /\ UNCHANGED outside
  \/ Idle /\ \E id \in PostIdInputs, u \in Users \cup {NoUser} : getPost(id, u)
          /\ UNCHANGED outside
  \/ Idle /\ \E limit \in 1..MaxLimit, offset \in 0..MaxOffset :
               getPosts(limit, offset, <<>>, NoUser, <<>>)
          /\ UNCHANGED outside
  \/ return

SpecTx == Init /\ [][NextTx]_vars

\* ------------------------------- the storage layer: validatePostTags called
validatePostTagsCall(tagIds) ==
  /\ ret' = [NoRet EXCEPT !.op = "validatePostTags", !.tagIds = tagIds,
               !.ok = validatePostTags(tagIds)]
  /\ UNCHANGED <<tags, posts, postTags, favorites, userExcludeTags, nextPostId, tx, requested>>

NextValidate ==
  \/ Idle /\ Len(tags) < Len(defaultTags) + MaxNewTags
          /\ \E t \in TagInputs : createTag(t.name, t.category)
          /\ UNCHANGED outside
  \/ Idle /\ \E tagIds \in HttpTagIdLists : validatePostTagsCall(tagIds)
          /\ UNCHANGED outside
  \/ return

SpecValidate == Init /\ [][NextValidate]_vars

\* --------------------------------- exclude-tag storage: reads and replace
\* getUserExcludeTags: the user's rows left-joined with tags, in the order
\* the database returns them (the select has no ORDER BY); rows whose tag is
\* null are filtered out.
getUserExcludeTagsResults(userId) ==
  LET results == SelectSeq(userExcludeTags, LAMBDA r : r.userId = userId)
      joined == [i \in 1..Len(results) |-> TagOf(results[i].tagId)]
  IN {SelectSeq(rows, LAMBDA t : t.id # 0) : rows \in RowOrders(joined)}

getUserExcludeTags(userId) ==
  /\ \E list \in getUserExcludeTagsResults(userId) :
       ret' = [NoRet EXCEPT !.op = "getUserExcludeTags", !.userId = userId,
                 !.ok = TRUE, !.page = list]
  /\ UNCHANGED <<tags, posts, postTags, favorites, userExcludeTags, nextPostId, tx, requested>>

\* setUserExcludeTags runs inside db.transaction.  First statement: delete
\* the user's rows; the deletion stays in the transaction until the commit.
setUserExcludeTagsDelete(userId, tagIds) ==
  /\ ~tx.open
  /\ tx' = [open |-> TRUE, stage |-> "delete", post |-> [NoPost EXCEPT !.userId = userId],
            tagIds |-> tagIds, rows |-> <<>>]
  /\ UNCHANGED <<tags, posts, postTags, favorites, userExcludeTags, nextPostId, requested, ret>>

\* Second statement, skipped for an empty tagIds: one multi-row insert with
\* ON CONFLICT DO NOTHING (the table has no unique index to conflict with).
\* tag_id references tags.id: an id that is no tag fails the statement and
\* the transaction is rolled back.
setUserExcludeTagsInsert ==
  /\ tx.open
  /\ tx.stage = "delete"
  /\ IF Range(tx.tagIds) \subseteq TagIdsOf(tags)
     THEN /\ tx' = [tx EXCEPT !.stage = "insert",
                      !.rows = [i \in 1..Len(tx.tagIds) |->
                                  [userId |-> tx.post.userId, tagId |-> tx.tagIds[i]]]]
          /\ UNCHANGED ret
     ELSE /\ tx' = NoTx
          /\ ret' = [NoRet EXCEPT !.op = "setUserExcludeTags", !.userId = tx.post.userId,
                       !.tagIds = tx.tagIds, !.ok = FALSE]
  /\ UNCHANGED <<tags, posts, postTags, favorites, userExcludeTags, nextPostId, requested>>

\* The commit: the deletion and the new rows become visible together.
setUserExcludeTagsCommit ==
  /\ tx.open
  /\ tx.stage = "insert"
  /\ userExcludeTags' =
       SelectSeq(userExcludeTags, LAMBDA r : r.userId # tx.post.userId) \o tx.rows
  /\ ret' = [NoRet EXCEPT !.op = "setUserExcludeTags", !.userId = tx.post.userId,
               !.tagIds = tx.tagIds, !.ok = TRUE]
  /\ tx' = NoTx
  /\ UNCHANGED <<tags, posts, postTags, favorites, nextPostId, requested>>

\* The replace with its readers: a getUserExcludeTags or a getPosts of a
\* viewer may run between any two statements of the transaction.
NextSetExcludes ==
  \/ Idle /\ nextPostId <= MaxPosts
          /\ \E u \in Users, tagIds \in PostsTagIdLists : createPost(u, tagIds)
          /\ UNCHANGED outside
  \/ Idle /\ \E u \in Users, tagIds \in HttpTagIdLists : setUserExcludeTagsDelete(u, tagIds)
          /\ UNCHANGED outside
  \/ Idle /\ setUserExcludeTagsInsert /\ UNCHANGED outside
  \/ Idle /\ setUserExcludeTagsCommit /\ UNCHANGED outside
  \/ Idle /\ \E u \in Users : getUserExcludeTags(u)
          /\ UNCHANGED outside
  \/ Idle /\ \E u \in Users : getPosts(MaxLimit, 0, <<>>, u, <<>>)
          /\ UNCHANGED outside
  \/ return

SpecSetExcludes == Init /\ [][NextSetExcludes]_vars

\* ------------------------- exclude-tag storage: single adds and removals
NextExcludes ==
  \/ Idle /\ Len(userExcludeTags) < MaxExcludeRows
          /\ \E u \in Users, tagId \in HttpTagIdInputs : addExcludeTag(u, tagId)
          /\ UNCHANGED outside
  \/ Idle /\ \E session \in Sessions, tagIds \in HttpTagIdLists :
               /\ Len(userExcludeTags) + Len(tagIds) <= MaxExcludeRows
               /\ postApiExcludeTags(session, tagIds)
  \/ Idle /\ \E u \in Users, tagId \in HttpTagIdInputs : removeExcludeTag(u, tagId)
          /\ UNCHANGED outside
  \/ Idle /\ \E u \in Users : getUserExcludeTags(u)
          /\ UNCHANGED outside
  \/ return

SpecExcludes == Init /\ [][NextExcludes]_vars

\* ------------------------ the storage layer: reads that show isFavorited
NextFavorited ==
  \/ Idle /\ PostsWrites < MaxPostsWrites
          /\ \E u \in Users, tagIds \in PostsTagIdLists : createPost(u, tagIds)
          /\ UNCHANGED outside
  \/ Idle /\ PostsWrites < MaxPostsWrites
          /\ \E u \in Users, postId \in 1..MaxPostsWrites : addFavorite(u, postId)
          /\ UNCHANGED outside
  \/ Idle /\ \E u \in Users, postId \in 1..MaxPostsWrites : removeFavorite(u, postId)
          /\ UNCHANGED outside
  \/ Idle /\ \E limit \in 1..MaxLimit, offset \in 0..MaxOffset, u \in Users \cup {NoUser} :
               getPosts(limit, offset, <<>>, u, <<>>)
          /\ UNCHANGED outside
  \/ Idle /\ \E id \in 1..MaxPostsWrites, u \in Users \cup {NoUser} : getPost(id, u)
          /\ UNCHANGED outside
  \/ return

SpecFavorited == Init /\ [][NextFavorited]_vars

\* ------------------------------------------------------- favorites listing
\* The rows getUserFavorites' joins produce for one favorites row: the
\* favorited post with one row per post_tags row of it (a single row with a
\* null tag when it has none); the select's isFavorited is the literal true.
favoriteRows(f) ==
  LET p == CHOOSE q \in posts : q.id = f.postId
      rows == joinRows(p, NoUser)
  IN [k \in 1..Len(rows) |-> [rows[k] EXCEPT !.isFavorited = TRUE]]

\* orderBy(desc(favorites.createdAt)): the favorites table is kept in order
\* of creation, so the newest row is the last.
orderByFavoriteCreatedAtDesc(fs) == [i \in 1..Len(fs) |-> fs[Len(fs) + 1 - i]]

\* The rows of one favorites row tie in the order and come in any order.
RECURSIVE favoritesQueryResults(_)
favoritesQueryResults(fs) ==
  IF fs = <<>> THEN {<<>>}
  ELSE {a \o b : a \in RowOrders(favoriteRows(Head(fs))),
                 b \in favoritesQueryResults(Tail(fs))}

\* Every page getUserFavorites may return in the current state of the tables.
getUserFavoritesResults(userId, limit, offset) ==
  LET own == SelectSeq(favorites, LAMBDA f : f.userId = userId)
  IN {collectTags(limitOffset(rows, limit, offset), <<>>) :
        rows \in favoritesQueryResults(orderByFavoriteCreatedAtDesc(own))}

getUserFavorites(userId, limit, offset) ==
  /\ \E page \in getUserFavoritesResults(userId, limit, offset) :
       ret' = [NoRet EXCEPT !.op = "getUserFavorites", !.userId = userId, !.limit = limit,
                 !.offset = offset, !.ok = TRUE, !.page = page]
  /\ UNCHANGED <<tags, posts, postTags, favorites, userExcludeTags, nextPostId, tx, requested>>

NextUserFavorites ==
  \/ Idle /\ PostsWrites < MaxPostsWrites
          /\ \E u \in Users, tagIds \in TagIdLists : createPost(u, tagIds)
          /\ UNCHANGED outside
  \/ Idle /\ PostsWrites < MaxPostsWrites
          /\ \E u \in Users, postId \in 1..MaxPostsWrites : addFavorite(u, postId)
          /\ UNCHANGED outside
  \/ Idle /\ \E u \in Users, postId \in 1..MaxPostsWrites : removeFavorite(u, postId)
          /\ UNCHANGED outside
  \/ Idle /\ \E u \in Users, limit \in 1..MaxLimit, offset \in 0..MaxOffset :
               getUserFavorites(u, limit, offset)
          /\ UNCHANGED outside
  \/ return

SpecUserFavorites == Init /\ [][NextUserFavorites]_vars

\* ------------------------------------------------------------ tag listing
\* The order of tags.name under the column's collation, for the names in use.
tagNameOrder ==
  << "chorui", "gyorui", "hachurui", "hana", "hige", "inu", "kiba", "konchu", "me",
     "mimi", "naname", "neko", "pochi", "ryoseirui", "shippo", "shita", "shodobutsu",
     "shomen", "sonota", "tsuno", "ue", "ushiro", "yoko" >>

\* The order of the enum tag_category: the order of its declaration.
tagCategoryOrder == <<"bunrui", "kakudo", "parts", "jiyu">>

RankIn(s, x) == CHOOSE i \in 1..Len(s) : s[i] = x

\* ORDER BY on a set of rows, each given with its sort key: every order that
\* is ascending in the key (rows with equal keys come in any order).
RECURSIVE orderBy(_)
orderBy(keyed) ==
  IF keyed = {} THEN {<<>>}
  ELSE LET firsts == {t \in keyed : \A u \in keyed : t.key <= u.key}
       IN UNION {{<<t.row>> \o rest : rest \in orderBy(keyed \ {t})} : t \in firsts}

\* getAllTags: select().from(tags).orderBy(tags.category, tags.name)
getAllTags ==
  /\ \E list \in orderBy({[row |-> t,
                             key |-> RankIn(tagCategoryOrder, t.category) * (Len(tagNameOrder) + 1)
                                       + RankIn(tagNameOrder, t.name)] : t \in Range(tags)}) :
       ret' = [NoRet EXCEPT !.op = "getAllTags", !.ok = TRUE, !.page = list]
  /\ UNCHANGED <<tags, posts, postTags, favorites, userExcludeTags, nextPostId, tx, requested>>

\* getTagsByCategory: select().from(tags).where(eq(tags.category, category))
\* .orderBy(tags.name).  The column is of the enum type tag_category: a
\* value that is none of its labels is no input of the type, and the
\* database rejects the query.
getTagsByCategory(category) ==
  /\ IF category \in TagCategory
     THEN \E list \in orderBy({[row |-> t, key |-> RankIn(tagNameOrder, t.name)] :
                                 t \in {x \in Range(tags) : x.category = category}}) :
            ret' = [NoRet EXCEPT !.op = "getTagsByCategory", !.ok = TRUE, !.page = list]
     ELSE ret' = [NoRet EXCEPT !.op = "getTagsByCategory", !.ok = FALSE]
  /\ UNCHANGED <<tags, posts, postTags, favorites, userExcludeTags, nextPostId, tx, requested>>

\* GET /api/tags (no authentication); category "" stands for a request
\* without the query parameter.
getApiTags(category) ==
  /\ IF category # "" THEN getTagsByCategory(category) ELSE getAllTags
  /\ res' = IF ret'.ok
            THEN [status |-> 200, route |-> "GET /api/tags", category |-> category,
                  body |-> ret'.page]
            ELSE [status |-> 500, route |-> "GET /api/tags", category |-> category,
                  body |-> <<>>]
  /\ UNCHANGED <<callers, seed, req>>

CategoryInputs == TagCategory \cup {"", "shurui"}

NextTagList ==
  \/ Idle /\ Len(tags) < Len(defaultTags) + MaxNewTags
          /\ \E session \in Sessions, t \in TagInputs : postApiTags(session, t.name, t.category)
  \/ Idle /\ \E category \in CategoryInputs : getApiTags(category)
  \/ return

SpecTagList == Init /\ [][NextTagList]_vars

\* ------------------------------------------------------ the caller's posts
\* GET /api/user/posts: storage.getPosts(limit, offset, undefined, userId),
\* then posts.filter((post) => post.userId === userId).
getApiUserPosts(session, limit, offset) ==
  /\ IF ~isAuthenticated(session) THEN Unauthorized
     ELSE /\ getPosts(limit, offset, <<>>, session, <<>>)
          /\ res' = [status |-> 200, route |-> "GET /api/user/posts", userId |-> session,
                     limit |-> limit, offset |-> offset,
                     body |-> SelectSeq(ret'.page, LAMBDA post : post.userId = session)]
  /\ UNCHANGED <<callers, seed, req>>

NextUserPosts ==
  \/ Idle /\ nextPostId <= MaxPosts
          /\ \E u \in Users, tagIds \in TagIdLists : createPost(u, tagIds)
          /\ UNCHANGED outside
  \/ Idle /\ Len(userExcludeTags) < MaxExcludes
          /\ \E u \in Users, tagId \in TagIdInputs : addExcludeTag(u, tagId)
          /\ UNCHANGED outside
  \/ Idle /\ \E session \in Sessions, limit \in 1..MaxLimit, offset \in 0..MaxOffset :
               getApiUserPosts(session, limit, offset)
  \/ return

SpecUserPosts == Init /\ [][NextUserPosts]_vars

\* ----------------------------------------- the authenticated read routes
\* GET /api/user/favorites
getApiUserFavorites(session, limit, offset) ==
  /\ IF ~isAuthenticated(session) THEN Unauthorized
     ELSE /\ getUserFavorites(session, limit, offset)
          /\ res' = [status |-> 200, route |-> "GET /api/user/favorites", userId |-> session,
                     limit |-> limit, offset |-> offset, body |-> ret'.page]
  /\ UNCHANGED <<callers, seed, req>>

\* GET /api/exclude-tags
getApiExcludeTags(session) ==
  /\ IF ~isAuthenticated(session) THEN Unauthorized
     ELSE /\ getUserExcludeTags(session)
          /\ res' = [status |-> 200, route |-> "GET /api/exclude-tags", userId |-> session,
                     body |-> ret'.page]
  /\ UNCHANGED <<callers, seed, req>>

\* Every route of the HTTP surface that asks for authentication, with the
\* writes of NextHttp.  The reads ask for the first page: what a page holds
\* plays no part in whether the request is let through.
NextHttpAuth ==
  \/ NextHttp
  \/ Serving /\ Idle
       /\ \E session \in Sessions : getApiUserFavorites(session, MaxLimit, 0)
  \/ Serving /\ Idle
       /\ \E session \in Sessions : getApiUserPosts(session, MaxLimit, 0)
  \/ Serving /\ Idle /\ \E session \in Sessions : getApiExcludeTags(session)

SpecHttpAuth == InitHttp /\ [][NextHttpAuth]_vars

\* ================================================================== claims
\* What the claims speak of, read off the tables.
TagsCarried(postId) == {r.tagId : r \in {x \in Range(postTags) : x.postId = postId}}

PageIds(page) == [k \in 1..Len(page) |-> page[k].id]

NoDuplicates(s) == \A i, j \in 1..Len(s) : s[i] = s[j] => i = j

\* The feed a call is meant to page over: the posts that carry every include
\* tag and no tag excluded by the request or by the viewer, newest first.
FilteredFeed(tagIds, userId, excludeTagIds) ==
  orderByCreatedAtDesc(
    {p \in posts :
       /\ Range(tagIds) \subseteq TagsCarried(p.id)
       /\ TagsCarried(p.id) \cap (Range(excludeTagIds) \cup excludedTagIds(userId)) = {}})

\* C1: getPosts returns exactly the posts at positions offset .. offset+limit-1
\* of the filtered feed, each post counting once toward the page however many
\* tags it has.  Stated on the calls that pass no include list, no exclude list
\* and no viewer, where the filtered feed is every post, newest first.
C1_PageOverDistinctPosts ==
  (ret.op = "getPosts" /\ ret.tagIds = <<>> /\ ret.excludeTagIds = <<>> /\ ret.userId = NoUser)
    => LET feed == PageIds(FilteredFeed(<<>>, NoUser, <<>>))
       IN PageIds(ret.page) = SubSeq(feed, ret.offset + 1, Min(Len(feed), ret.offset + ret.limit))

\* C2: a post that getPosts returns is returned exactly once, and its tags list
\* holds exactly the tags associated with it: none missing, none twice.
C2_PostOnceWithAllItsTags ==
  ret.op = "getPosts"
    => /\ NoDuplicates(PageIds(ret.page))
       /\ \A k \in 1..Len(ret.page) :
            /\ TagIdsOf(ret.page[k].tags) = TagsCarried(ret.page[k].id)
            /\ Len(ret.page[k].tags) = Cardinality(TagsCarried(ret.page[k].id))

\* C3: with a non-empty, duplicate-free include list, every returned post
\* carries every tag of the list, and every post that carries them all passes
\* the include filter.
C3_IncludeIsAnd ==
  /\ (ret.op = "getPosts" /\ Len(ret.tagIds) > 0 /\ NoDuplicates(ret.tagIds))
       => \A k \in 1..Len(ret.page) : Range(ret.tagIds) \subseteq TagsCarried(ret.page[k].id)
  /\ \A tagIds \in TagIdLists :
       (Len(tagIds) > 0 /\ NoDuplicates(tagIds))
         => \A p \in posts :
              Range(tagIds) \subseteq TagsCarried(p.id) => p.id \in postsWithAllTags(tagIds)

\* C4: a post carrying a tag of the request's exclude list or of the viewer's
\* stored exclude list is never in the result of that call.
C4_ExcludedNeverReturned ==
  ret.op = "getPosts"
    => \A k \in 1..Len(ret.page) :
         TagsCarried(ret.page[k].id)
           \cap (Range(ret.excludeTagIds) \cup excludedTagIds(ret.userId)) = {}

\* C5: when callers run getOrCreateTag concurrently for the same name and
\* category, then once they have all returned exactly one tag row with that
\* pair exists and every caller holds that same row.
C5_ConcurrentGetOrCreateOneRow ==
  \A c, d \in Callers :
    (/\ c # d
     /\ callers[c].pc = "done" /\ callers[d].pc = "done"
     /\ callers[c].name = callers[d].name /\ callers[c].category = callers[d].category)
      => /\ Count(tags, LAMBDA t : t.name = callers[c].name /\ t.category = callers[c].category) = 1
         /\ callers[c].result = callers[d].result

\* C6: no two tag rows have the same name and category, whatever sequence of
\* seeding and requests created them.
C6_TagPairUnique ==
  \A i, j \in 1..Len(tags) :
    (tags[i].name = tags[j].name /\ tags[i].category = tags[j].category) => i = j

\* C7: addFavorite called twice for a user and a post leaves exactly one
\* favorite row for the pair: no pair is ever stored twice.
C7_AddFavoriteIdempotent ==
  \A u \in Users, p \in PostIdsOf(posts) :
    Count(favorites, LAMBDA r : r.userId = u /\ r.postId = p) <= 1

\* What createPost was asked to attach to a stored post.
RequestedTags(postId) ==
  UNION {Range(r.tagIds) : r \in {x \in Range(requested) : x.postId = postId}}

\* A read result shows every post in it with all the tags createPost attached.
ObservedComplete ==
  \A k \in 1..Len(ret.page) : TagIdsOf(ret.page[k].tags) = RequestedTags(ret.page[k].id)

\* C8: createPost is all-or-nothing: a createPost that failed leaves no post
\* row, and a feed or single-post read running at any point of a createPost
\* never shows a post without the complete set of its tag associations.
C8_CreatePostAllOrNothing ==
  /\ (ret.op = "createPost" /\ ~ret.ok) => ret.postId \notin PostIdsOf(posts)
  /\ ret.op \in {"getPost", "getPosts"} => ObservedComplete

\* The transaction itself, apart from the feed's paging: the committed tables
\* never hold a post without the rows it was created with, a failed createPost
\* leaves no post row, and getPost never shows an incomplete post.
CreatePostTransactionAtomic ==
  /\ \A p \in posts : TagsCarried(p.id) = RequestedTags(p.id)
  /\ (ret.op = "createPost" /\ ~ret.ok) => ret.postId \notin PostIdsOf(posts)
  /\ ret.op = "getPost" => ObservedComplete

\* C9: deletePost by a caller who is not the post's owner returns false and
\* leaves the post, its tag associations and its favorites as they were; it
\* returns true only when the caller owns the post and the row was removed;
\* for an id that is no post it returns the same false.
C9_DeletePostOwnerOnly ==
  [][(ret'.op = "deletePost")
       => LET target == {p \in posts : p.id = ret'.postId}
              owned == {p \in target : p.userId = ret'.userId}
          IN /\ owned = {}
                  => /\ ret'.ok = FALSE
                     /\ posts' = posts /\ postTags' = postTags /\ favorites' = favorites
             /\ ret'.ok = TRUE
                  => /\ owned # {}
                     /\ posts' = posts \ owned]_vars

\* C9 witness: a deletePost by a non-owner has returned false while the post,
\* with a tag and a favorite, is still stored.
C9_Witness ==
  /\ ret.op = "deletePost" /\ ~ret.ok
  /\ \E p \in posts :
       /\ p.id = ret.postId /\ p.userId # ret.userId
       /\ TagsCarried(p.id) # {}
       /\ \E i \in 1..Len(favorites) : favorites[i].postId = p.id

\* C10: every stored post carries at least one tag of the classification category.
C10_EveryPostHasClassificationTag ==
  \A p \in posts : \E t \in TagsCarried(p.id) : TagOf(t).category = "bunrui"

\* C10 witness: a post created through POST /api/posts is stored, carrying a
\* classification tag and a tag of another category.
C10_Witness ==
  \E p \in posts :
    /\ \E t \in TagsCarried(p.id) : TagOf(t).category = "bunrui"
    /\ \E t \in TagsCarried(p.id) : TagOf(t).category # "bunrui"

\* C11: validatePostTags(tagIds) returns false for the empty list, false when
\* an id is no tag, false when none of the tags is a classification tag, and
\* true in every other case.
C11_ValidatePostTags ==
  ret.op = "validatePostTags"
    => ret.ok = (/\ Len(ret.tagIds) > 0
                 /\ Range(ret.tagIds) \subseteq TagIdsOf(tags)
                 /\ \E t \in Range(ret.tagIds) : TagOf(t).category = "bunrui")

\* What C12 says of one step.
SetExcludeTagsStep ==
  /\ ret'.op = "setUserExcludeTags"
       => /\ SelectSeq(userExcludeTags', LAMBDA r : r.userId # ret'.userId)
               = SelectSeq(userExcludeTags, LAMBDA r : r.userId # ret'.userId)
          /\ ret'.ok
               => /\ {r.tagId : r \in {x \in Range(userExcludeTags') : x.userId = ret'.userId}}
                       = Range(ret'.tagIds)
                  /\ \A t \in Range(ret'.tagIds) :
                       Len(SelectSeq(userExcludeTags',
                             LAMBDA r : r.userId = ret'.userId /\ r.tagId = t)) = 1
          /\ ~ret'.ok => userExcludeTags' = userExcludeTags
  /\ ret'.op # "setUserExcludeTags" => userExcludeTags' = userExcludeTags
  /\ ret'.op = "getUserExcludeTags"
       => TagIdsOf(ret'.page) = excludedTagIds(ret'.userId)
  /\ (ret'.op = "getPosts" /\ ret'.userId # NoUser)
       => \A k \in 1..Len(ret'.page) :
            TagsCarried(ret'.page[k].id) \cap excludedTagIds(ret'.userId) = {}

\* C12: setUserExcludeTags is an atomic replace.  When it completes, the
\* user's exclusions are exactly the given tag ids, one row per tag, and the
\* other users' rows are as before; when it fails, the table is as before;
\* and a getUserExcludeTags or getPosts of the user shows the stored set as a
\* whole, which changes at the completion only.
C12_SetExcludeTagsAtomicReplace == [][SetExcludeTagsStep]_vars

\* The replace apart from repeated ids: for a list of distinct ids the
\* statement of C12 holds of every step.
SetExcludeTagsAtomicForDistinctIds ==
  [][(ret'.op = "setUserExcludeTags" => NoDuplicates(ret'.tagIds))
       => SetExcludeTagsStep]_vars

\* C13: addExcludeTag and removeExcludeTag are idempotent: at most one row is
\* stored per (user, tag), getUserExcludeTags lists each excluded tag once, an
\* add or a remove of an existing tag raises no error whether or not the
\* exclusion is there, and after removeExcludeTag(u, t) no row (u, t) is left.
C13_ExcludeTagIdempotent ==
  /\ \A u \in Users, t \in TagIdsOf(tags) :
       Count(userExcludeTags, LAMBDA r : r.userId = u /\ r.tagId = t) <= 1
  /\ ret.op = "getUserExcludeTags"
       => /\ NoDuplicates([k \in 1..Len(ret.page) |-> ret.page[k].id])
          /\ TagIdsOf(ret.page) = excludedTagIds(ret.userId)
  /\ (ret.op \in {"addExcludeTag", "removeExcludeTag"}
        /\ Range(ret.tagIds) \subseteq TagIdsOf(tags)) => ret.ok
  /\ ret.op = "removeExcludeTag"
       => \A i \in 1..Len(userExcludeTags) :
            ~(userExcludeTags[i].userId = ret.userId
                /\ userExcludeTags[i].tagId \in Range(ret.tagIds))

\* C14: every post getPosts or getPost returns has isFavorited true exactly
\* when a viewer was given and a favorite row of that viewer for the post is
\* stored, whatever other users have favorited; without a viewer it is false.
C14_IsFavoritedOfViewer ==
  ret.op \in {"getPosts", "getPost"}
    => \A k \in 1..Len(ret.page) :
         ret.page[k].isFavorited
           = (/\ ret.userId # NoUser
              /\ \E i \in 1..Len(favorites) :
                   favorites[i].userId = ret.userId /\ favorites[i].postId = ret.page[k].id)

\* C14 witness: a read by a viewer has returned a post that only another
\* user has favorited, and getPosts has also returned one the viewer has.
C14_Witness ==
  /\ ret.op = "getPosts" /\ ret.userId # NoUser
  /\ \E k \in 1..Len(ret.page) : ret.page[k].isFavorited
  /\ \E k \in 1..Len(ret.page) :
       /\ ~ret.page[k].isFavorited
       /\ \E i \in 1..Len(favorites) :
            favorites[i].postId = ret.page[k].id /\ favorites[i].userId # ret.userId

\* A sequence without its repetitions, first occurrences kept.
RECURSIVE Distinct(_)
Distinct(s) ==
  IF s = <<>> THEN <<>>
  ELSE <<Head(s)>> \o Distinct(SelectSeq(Tail(s), LAMBDA x : x # Head(s)))

\* The posts a user has favorited, newest favorite first, each once.
FavoriteFeed(userId) ==
  LET own == SelectSeq(favorites, LAMBDA f : f.userId = userId)
  IN Distinct([i \in 1..Len(own) |-> own[Len(own) + 1 - i].postId])

\* C16: getUserFavorites(userId, limit, offset) returns the page of the
\* user's favorited posts, newest favorite first, that limit and offset cut
\* counting posts: each post once, with isFavorited true and all its tags.
C16_FavoritesPageOverPosts ==
  ret.op = "getUserFavorites"
    => /\ PageIds(ret.page)
            = SubSeq(FavoriteFeed(ret.userId), ret.offset + 1,
                     Min(Len(FavoriteFeed(ret.userId)), ret.offset + ret.limit))
       /\ \A k \in 1..Len(ret.page) :
            /\ ret.page[k].isFavorited
            /\ TagIdsOf(ret.page[k].tags) = TagsCarried(ret.page[k].id)

\* C17: listing tags by a category that is none of the four enumerated
\* values fails with a validation error (status 400) raised before the store
\* is queried, and returns no tag list; for each of the four categories the
\* answer is exactly the tags of that category, ordered by name.
C17_ListByCategory ==
  (res.status # 0 /\ "route" \in DOMAIN res /\ res.route = "GET /api/tags" /\ res.category # "")
    => IF res.category \in TagCategory
       THEN /\ res.status = 200
            /\ Len(res.body) = Len(SelectSeq(tags, LAMBDA t : t.category = res.category))
            /\ Range(res.body) = {t \in Range(tags) : t.category = res.category}
            /\ \A i, j \in 1..Len(res.body) :
                 i <= j => RankIn(tagNameOrder, res.body[i].name)
                             <= RankIn(tagNameOrder, res.body[j].name)
       ELSE /\ res.status = 400
            /\ ret.op = "none"
            /\ res.body = <<>>

\* C18: GET /api/user/posts answers with posts of the caller only, and with
\* exactly those of the caller's posts that are on the limit/offset page of
\* the global feed from which the caller's excluded tags are filtered out
\* (the page is taken first, the owner filter comes after).
C18_UserPostsPageThenFilter ==
  (res.status = 200 /\ "route" \in DOMAIN res /\ res.route = "GET /api/user/posts")
    => LET feed == FilteredFeed(<<>>, res.userId, <<>>)
           page == SubSeq(feed, res.offset + 1, Min(Len(feed), res.offset + res.limit))
       IN /\ \A k \in 1..Len(res.body) : res.body[k].userId = res.userId
          /\ PageIds(res.body) = PageIds(SelectSeq(page, LAMBDA p : p.userId = res.userId))

\* The answer apart from how getPosts cuts its page: the posts are the
\* caller's, none carries a tag the caller excludes, and none lies beyond the
\* first offset + limit posts of the global feed.
UserPostsOwnedAndWithinGlobalWindow ==
  (res.status = 200 /\ "route" \in DOMAIN res /\ res.route = "GET /api/user/posts")
    => LET feed == FilteredFeed(<<>>, res.userId, <<>>)
           window == SubSeq(feed, 1, Min(Len(feed), res.offset + res.limit))
       IN \A k \in 1..Len(res.body) :
            /\ res.body[k].userId = res.userId
            /\ res.body[k].id \in Range(PageIds(window))

\* A step that is a request without a session to a route asking for
\* authentication.
UnauthenticatedRequest ==
  \/ \E t \in TagInputs : postApiTags(NoUser, t.name, t.category)
  \/ \E tagIds \in HttpTagIdLists : postApiPostsValidate(NoUser, tagIds)
  \/ \E id \in HttpPostIdInputs : deleteApiPostsId(NoUser, id)
  \/ \E postId \in {0} \cup HttpPostIdInputs : postApiFavorites(NoUser, postId)
  \/ \E postId \in HttpPostIdInputs : deleteApiFavoritesPostId(NoUser, postId)
  \/ getApiUserFavorites(NoUser, MaxLimit, 0)
  \/ getApiUserPosts(NoUser, MaxLimit, 0)
  \/ getApiExcludeTags(NoUser)
  \/ \E tagIds \in HttpTagIdLists : postApiExcludeTags(NoUser, tagIds)
  \/ \E tagId \in HttpTagIdInputs : deleteApiExcludeTagsTagId(NoUser, tagId)

\* A step that is a request of a user with a session to a route that writes.
AuthenticatedWrite ==
  \E session \in Users :
    \/ \E t \in TagInputs : postApiTags(session, t.name, t.category)
    \/ postApiPostsCreate /\ req.userId = session
    \/ \E id \in HttpPostIdInputs : deleteApiPostsId(session, id)
    \/ \E postId \in HttpPostIdInputs : postApiFavorites(session, postId)
    \/ \E postId \in HttpPostIdInputs : deleteApiFavoritesPostId(session, postId)
    \/ \E tagIds \in HttpTagIdLists : postApiExcludeTags(session, tagIds)
    \/ \E tagId \in HttpTagIdInputs : deleteApiExcludeTagsTagId(session, tagId)

\* C15: a request without an authenticated session to a route that asks for
\* authentication is answered 401 and leaves tags, posts, post-tags,
\* favorites and exclusions as they were; once the server serves, a step
\* that changes a store is a request of an authenticated user.
C15_UnauthenticatedAnswered401 ==
  [][/\ UnauthenticatedRequest
          => /\ res'.status = 401
             /\ UNCHANGED <<tags, posts, postTags, favorites, userExcludeTags>>
     /\ (Serving /\ <<tags, posts, postTags, favorites, userExcludeTags>>'
                      # <<tags, posts, postTags, favorites, userExcludeTags>>)
          => AuthenticatedWrite]_vars

\* C15 witness: a request has been answered 401 while posts, favorites and
\* exclusions are stored.
C15_Witness ==
  /\ res.status = 401
  /\ posts # {}
  /\ favorites # <<>> \/ userExcludeTags # <<>>

====
